---- MODULE Spec2Model ----
(***************************************************************************)
(* A model of file-picker-ios (src/src/lib.rs): the bridge between the     *)
(* native document picker's C callback and an async future (pick_file) or  *)
(* stream (pick_files).                                                     *)
(*                                                                         *)
(* Memory is a sequence of cells; an address is an index into it and NULL  *)
(* is 0.  A cell holds a byte sequence or the marker Freed.  The boxed     *)
(* channel producer, the tokio oneshot and watch channels, the WatchStream  *)
(* and the presenter's retain count are state.                             *)
(***************************************************************************)
EXTENDS Integers, Sequences, FiniteSets, TLC

\* ------------------------------------------------------------------ bounds
MaxByte == 1        \* bytes are 0..MaxByte; 0 is the NUL byte
MaxExts == 2        \* extension strings per call
MaxExtLen == 1      \* bytes per extension string
MaxBufLen == 1      \* bytes per native file buffer
MaxCallbacks == 2   \* callback invocations per session
MarshalCallbacks == 2 \* callback invocations per session in MarshalSpec

Byte == 0..MaxByte

RECURSIVE SeqsUpTo(_, _)
SeqsUpTo(S, n) ==
    IF n = 0 THEN {<<>>}
    ELSE LET shorter == SeqsUpTo(S, n - 1)
         IN  shorter \cup {Append(s, x) : s \in {t \in shorter : Len(t) = n - 1}, x \in S}

\* every extension list a caller may pass, embedded NUL bytes included
ExtInputs == SeqsUpTo(SeqsUpTo(Byte, MaxExtLen), MaxExts)
\* the extension lists of the session specification: none, one, two, and one
\* with an embedded NUL
SessionExts == {<<>>, <<<<1>>>>, <<<<1>>, <<>>>>, <<<<1, 0>>>>}
\* every content a native file buffer may have
Buffers == SeqsUpTo(Byte, MaxBufLen)
\* the file contents of MarshalSpec, whose subject is the extension list
MarshalBuffers == {<<>>}

\* ------------------------------------------------------------------ values
NULL == 0
Freed == <<-1>>
None == {}
Some(h) == {h}

VARIABLES
    extensions,   \* the `extensions` argument of the call
    budget,       \* callback invocations the native layer has left
    files,        \* the contents the native layer may pass to the callback
    session,      \* "none", "file" (pick_file) or "files" (pick_files)
    panic,        \* "none", or the panic that ended the program
    shown,        \* what show_browser was called with
    mem,          \* the heap: native file buffers and Arc<[u8]> contents
    sender,       \* the boxed channel producer: "none", "boxed", "freed"
    chan,         \* the channel shared by producer and consumer
    rx,           \* the consumer half as held by the adapter's f / s
    adapter,      \* "none", "alive", "dropped"
    retains,      \* objc retains of the presenter made by the crate
    releases,     \* objc releases of the presenter made by the crate
    result,       \* the Output of the future: {} until Ready, then {output}
    yielded,      \* the items the stream has produced, in order
    ended,        \* the stream has returned Ready(None)
    lastPoll,     \* what the last poll returned: "none", "pending", "ready", "end"
    pushed,       \* history: the callback invocations, in order
    ub,           \* an invocation dereferenced a freed producer
    crashed       \* the process died of it

vars == <<extensions, budget, files, session, panic, shown, mem, sender, chan, rx,
          adapter, retains, releases, result, yielded, ended, lastPoll,
          pushed, ub, crashed>>

\* ------------------------------------------------- extension marshalling
HasNul(s) == \E i \in 1..Len(s) : s[i] = 0

\* mutant of CStringNew: the string is cut at its first NUL byte instead of
\* being rejected
CStringNewTruncate(s) ==
    IF HasNul(s)
    THEN LET n == CHOOSE i \in 1..Len(s) : s[i] = 0 /\ \A j \in 1..(i - 1) : s[j] # 0
         IN  {Append(SubSeq(s, 1, n - 1), 0)}
    ELSE {Append(s, 0)}

\* CString::new(s): Err (the empty set) on an interior NUL byte, else the
\* bytes of s followed by the terminating NUL
CStringNew(s) == IF HasNul(s) THEN {} ELSE {Append(s, 0)}

\* what C code reads through a char pointer: the bytes before the first NUL;
\* a freed or unterminated cell reads as Freed
ReadCStr(cell) ==
    IF cell = Freed \/ ~HasNul(cell) THEN Freed
    ELSE LET n == CHOOSE i \in 1..Len(cell) :
                      cell[i] = 0 /\ \A j \in 1..(i - 1) : cell[j] # 0
         IN  SubSeq(cell, 1, n - 1)

\* mutant of with_extension_ptrs: the pointers are taken from temporaries, so
\* every CString is freed before f runs
with_extension_ptrs_dangling(exts) ==
    LET conv == [i \in 1..Len(exts) |-> CStringNew(exts[i])]
    IN  IF \E i \in 1..Len(exts) : conv[i] = {}
        THEN [panicked |-> TRUE, cstrings |-> <<>>, ptrs |-> <<>>]
        ELSE [panicked |-> FALSE,
              cstrings |-> [i \in 1..Len(exts) |-> Freed],
              ptrs |-> [i \in 1..Len(exts) |-> i]]

\* with_extension_ptrs up to the call of f: the owned CStrings and the array
\* of pointers to them (an address is an index into cstrings), or the panic of
\* unwrap() on the first string CString::new rejects
with_extension_ptrs(exts) ==
    LET conv == [i \in 1..Len(exts) |-> CStringNew(exts[i])]
    IN  IF \E i \in 1..Len(exts) : conv[i] = {}
        THEN [panicked |-> TRUE, cstrings |-> <<>>, ptrs |-> <<>>]
        ELSE [panicked |-> FALSE,
              cstrings |-> [i \in 1..Len(exts) |-> CHOOSE c \in conv[i] : TRUE],
              ptrs |-> [i \in 1..Len(exts) |-> i]]

NotShown ==
    [called |-> FALSE, allow_multiple |-> FALSE, types_len |-> 0, ptrs |-> <<>>,
     cstrings |-> <<>>, read |-> <<>>]

\* the arguments show_browser is called with, and the C strings it reads
\* through the pointer array while the call lasts
show_browser(w, allow_multiple) ==
    [called |-> TRUE,
     allow_multiple |-> allow_multiple,
     types_len |-> Len(w.ptrs),
     ptrs |-> w.ptrs,
     cstrings |-> w.cstrings,
     read |-> [i \in 1..Len(w.ptrs) |-> ReadCStr(w.cstrings[w.ptrs[i]])]]

\* ---------------------------------------------------------------- channels
NoChannel ==
    [kind |-> "none", slot |-> {}, version |-> 0, txAlive |-> FALSE, rxAlive |-> FALSE]

\* oneshot::channel(): nothing sent, both halves alive
oneshot_channel ==
    [kind |-> "oneshot", slot |-> {}, version |-> 0, txAlive |-> TRUE, rxAlive |-> TRUE]

\* watch::channel(None): the slot holds the seed, both halves alive
watch_channel ==
    [kind |-> "watch", slot |-> {None}, version |-> 0, txAlive |-> TRUE, rxAlive |-> TRUE]

NoRx == [first |-> FALSE, version |-> 0, done |-> FALSE]
\* WatchStream::new(rx): the first poll yields the current value
WatchStreamNew == [first |-> TRUE, version |-> 0, done |-> FALSE]

\* oneshot Sender::send(v): consumes the sender; the value is stored unless
\* the receiver is gone, and then it is handed back in Err
oneshot_send(ch, v) ==
    IF ch.rxAlive
    THEN [sent |-> TRUE, chan |-> [ch EXCEPT !.slot = {v}, !.txAlive = FALSE]]
    ELSE [sent |-> FALSE, chan |-> [ch EXCEPT !.txAlive = FALSE]]

\* mutant of watch_send: the value is replaced without a new version, so no
\* receiver is told of it
watch_send_silent(ch, v) ==
    IF ch.rxAlive
    THEN [sent |-> TRUE, chan |-> [ch EXCEPT !.slot = {v}]]
    ELSE [sent |-> FALSE, chan |-> ch]

\* watch Sender::send(v): replaces the value and bumps the version unless no
\* receiver is left, and then the value is handed back in Err
watch_send(ch, v) ==
    IF ch.rxAlive
    THEN [sent |-> TRUE, chan |-> [ch EXCEPT !.slot = {v}, !.version = @ + 1]]
    ELSE [sent |-> FALSE, chan |-> ch]

\* mutant of ok: unwrap() on the result of send panics on Err
unwrap(r) == IF r.sent THEN "none" ELSE "send"

\* Result::ok() on the result of send: the error is discarded, nothing panics
ok(r) == "none"

\* ------------------------------------------------------------------ memory
Alloc(m, cell) == Append(m, cell)
Free(m, a) == [m EXCEPT ![a] = Freed]
\* slice::from_raw_parts(data, len): the len bytes at data
from_raw_parts(m, data, len) == SubSeq(m[data], 1, len)
\* mutant of FileHandleFrom: the handle borrows the native buffer instead of
\* copying it
FileHandleAlias(m, data, len) == [mem |-> m, handle |-> data]

\* FileHandle(slice.into()): a new Arc<[u8]> holding a copy of the slice; the
\* handle is the address of the new cell
FileHandleFrom(m, data, len) ==
    LET m1 == Alloc(m, from_raw_parts(m, data, len))
    IN  [mem |-> m1, handle |-> Len(m1)]
\* Deref for FileHandle: the bytes behind the handle
deref(m, h) == m[h]

\* ---------------------------------------------------------------- closures
\* mutant of pick_file_closure: no null check, a null pointer is sent as an
\* empty file
pick_file_closure_unchecked(m, ch, snd, data, len) ==
    LET fh == IF data # NULL THEN FileHandleFrom(m, data, len)
              ELSE [mem |-> Alloc(m, <<>>), handle |-> Len(m) + 1]
        r == oneshot_send(ch, Some(fh.handle))
    IN  [mem |-> IF r.sent THEN fh.mem ELSE Free(fh.mem, fh.handle),
         chan |-> r.chan, sender |-> "freed", panic |-> ok(r)]

\* mutant of pick_file_closure: the sender is only borrowed from the box, which
\* stays allocated after the call
pick_file_closure_borrows(m, ch, snd, data, len) ==
    IF data # NULL
    THEN LET fh == FileHandleFrom(m, data, len)
             r == oneshot_send(ch, Some(fh.handle))
         IN  [mem |-> IF r.sent THEN fh.mem ELSE Free(fh.mem, fh.handle),
              chan |-> r.chan, sender |-> snd, panic |-> ok(r)]
    ELSE LET r == oneshot_send(ch, None)
         IN  [mem |-> m, chan |-> r.chan, sender |-> snd, panic |-> ok(r)]

\* pick_file_closure: reclaims the boxed sender, sends Some(copy) or None,
\* and drops the sender at the end of the call
pick_file_closure(m, ch, snd, data, len) ==
    IF data # NULL
    THEN LET fh == FileHandleFrom(m, data, len)
             r == oneshot_send(ch, Some(fh.handle))
         IN  [mem |-> IF r.sent THEN fh.mem ELSE Free(fh.mem, fh.handle),
              chan |-> r.chan, sender |-> "freed", panic |-> ok(r)]
    ELSE LET r == oneshot_send(ch, None)
         IN  [mem |-> m, chan |-> r.chan, sender |-> "freed", panic |-> ok(r)]

\* mutant of pick_files_closure: the sender is forgotten on every path, the
\* null invocation included
pick_files_closure_forgets(m, ch, snd, data, len) ==
    IF data # NULL
    THEN LET fh == FileHandleFrom(m, data, len)
             r == watch_send(ch, Some(fh.handle))
         IN  [mem |-> IF r.sent THEN fh.mem ELSE Free(fh.mem, fh.handle),
              chan |-> r.chan, sender |-> snd, panic |-> ok(r)]
    ELSE [mem |-> m, chan |-> ch, sender |-> snd, panic |-> "none"]

\* mutant of pick_files_closure: no forget, the reclaimed sender is dropped at
\* the end of every invocation
pick_files_closure_drops(m, ch, snd, data, len) ==
    IF data # NULL
    THEN LET fh == FileHandleFrom(m, data, len)
             r == watch_send(ch, Some(fh.handle))
         IN  [mem |-> IF r.sent THEN fh.mem ELSE Free(fh.mem, fh.handle),
              chan |-> [r.chan EXCEPT !.txAlive = FALSE], sender |-> "freed",
              panic |-> ok(r)]
    ELSE [mem |-> m, chan |-> [ch EXCEPT !.txAlive = FALSE], sender |-> "freed",
          panic |-> "none"]

\* mutant of pick_files_closure: a buffer equal to the value the channel holds
\* is not sent again
pick_files_closure_dedup(m, ch, snd, data, len) ==
    IF data # NULL
    THEN LET fh == FileHandleFrom(m, data, len)
             same == \E v \in ch.slot : \E h \in v : m[h] = fh.mem[fh.handle]
             r == IF same THEN [sent |-> FALSE, chan |-> ch]
                  ELSE watch_send(ch, Some(fh.handle))
         IN  [mem |-> IF r.sent THEN fh.mem ELSE Free(fh.mem, fh.handle),
              chan |-> r.chan, sender |-> snd, panic |-> ok(r)]
    ELSE [mem |-> m, chan |-> [ch EXCEPT !.txAlive = FALSE], sender |-> "freed",
          panic |-> "none"]

\* pick_files_closure: reclaims the boxed sender; on a non-null buffer sends
\* Some(copy) and forgets the sender again, on null drops it
pick_files_closure(m, ch, snd, data, len) ==
    IF data # NULL
    THEN LET fh == FileHandleFrom(m, data, len)
             r == watch_send(ch, Some(fh.handle))
         IN  [mem |-> IF r.sent THEN fh.mem ELSE Free(fh.mem, fh.handle),
              chan |-> r.chan, sender |-> snd, panic |-> ok(r)]
    ELSE [mem |-> m, chan |-> [ch EXCEPT !.txAlive = FALSE], sender |-> "freed",
          panic |-> "none"]

\* ------------------------------------------------------------------ polling
\* mutant of rx_await: a receiver that does not wait, Err while nothing is sent
rx_await_eager(ch) ==
    IF ch.slot # {} THEN [ready |-> TRUE, recv |-> ch.slot]
    ELSE [ready |-> TRUE, recv |-> {}]

\* rx.await on the oneshot receiver: Ok(value) once a value was sent, Err once
\* the sender is gone without one, pending before
rx_await(ch) ==
    IF ch.slot # {} THEN [ready |-> TRUE, recv |-> ch.slot]
    ELSE IF ~ch.txAlive THEN [ready |-> TRUE, recv |-> {}]
    ELSE [ready |-> FALSE, recv |-> {}]

\* the async block of pick_file: Ok(res) => res, Err(_) => None
async_block(recv) == IF recv = {} THEN None ELSE CHOOSE res \in recv : TRUE

\* mutant of WatchStreamPoll: the value is read without marking its version
\* as seen
WatchStreamPoll_unmarked(ch, r) ==
    IF r.first \/ r.version # ch.version
    THEN [kind |-> "item", item |-> CHOOSE v \in ch.slot : TRUE,
          rx |-> [r EXCEPT !.first = FALSE]]
    ELSE IF ~ch.txAlive THEN [kind |-> "end", item |-> None, rx |-> r]
    ELSE [kind |-> "pending", item |-> None, rx |-> r]

\* WatchStream::poll_next: the current value on the first poll, afterwards the
\* current value whenever its version is unseen, the end of the stream once
\* the sender is gone and nothing is unseen
WatchStreamPoll(ch, r) ==
    IF r.first \/ r.version # ch.version
    THEN [kind |-> "item", item |-> CHOOSE v \in ch.slot : TRUE,
          rx |-> [r EXCEPT !.first = FALSE, !.version = ch.version]]
    ELSE IF ~ch.txAlive THEN [kind |-> "end", item |-> None, rx |-> r]
    ELSE [kind |-> "pending", item |-> None, rx |-> r]

\* mutant of filter_map_poll: the WatchStream without the filter
filter_map_missing(ch, r) == WatchStreamPoll(ch, r)

\* .filter_map(|f| f): polls the inner stream again for as long as it yields
\* None items; an item Some(handle) is passed on
RECURSIVE filter_map_poll(_, _)
filter_map_poll(ch, r) ==
    LET p == WatchStreamPoll(ch, r)
    IN  IF p.kind = "item" /\ p.item = None THEN filter_map_poll(ch, p.rx) ELSE p

\* mutant of StrongPtrRetain: StrongPtr::new(ptr), which takes ownership
\* without a retain
StrongPtrNew(n) == n

\* StrongPtr::retain(ptr): one objc retain
StrongPtrRetain(n) == n + 1
\* Drop for StrongPtr: one objc release
StrongPtrDrop(n) == n + 1

\* ------------------------------------------------------------------ actions
\* the program runs on until it panics or runs into undefined behaviour
Running == panic = "none" /\ ~ub

\* pick_file(controller, extensions)
pick_file ==
    /\ Running /\ session = "none"
    /\ LET w == with_extension_ptrs(extensions)
       IN  IF w.panicked
           THEN /\ panic' = "unwrap"
                /\ UNCHANGED <<session, shown, sender, chan, rx, adapter, retains>>
           ELSE /\ session' = "file"
                /\ chan' = oneshot_channel
                /\ sender' = "boxed"
                /\ shown' = show_browser(w, FALSE)
                /\ retains' = StrongPtrRetain(retains)
                /\ rx' = NoRx
                /\ adapter' = "alive"
                /\ UNCHANGED panic
    /\ UNCHANGED <<extensions, files, budget, mem, releases, result, yielded, ended,
                   lastPoll, pushed, ub, crashed>>

\* pick_files(controller, extensions)
pick_files ==
    /\ Running /\ session = "none"
    /\ LET w == with_extension_ptrs(extensions)
       IN  IF w.panicked
           THEN /\ panic' = "unwrap"
                /\ UNCHANGED <<session, shown, sender, chan, rx, adapter, retains>>
           ELSE /\ session' = "files"
                /\ chan' = watch_channel
                /\ sender' = "boxed"
                /\ shown' = show_browser(w, TRUE)
                /\ retains' = StrongPtrRetain(retains)
                /\ rx' = WatchStreamNew
                /\ adapter' = "alive"
                /\ UNCHANGED panic
    /\ UNCHANGED <<extensions, files, budget, mem, releases, result, yielded, ended,
                   lastPoll, pushed, ub, crashed>>

\* the closure and closure_data show_browser was given, run on a buffer the
\* native layer owns: the buffer is valid for the call only
RunClosure(null, bytes) ==
    LET m0 == IF null THEN mem ELSE Alloc(mem, bytes)
        data == IF null THEN NULL ELSE Len(m0)
        st == IF shown.allow_multiple
              THEN pick_files_closure(m0, chan, sender, data, Len(bytes))
              ELSE pick_file_closure(m0, chan, sender, data, Len(bytes))
    IN  /\ mem' = IF null THEN st.mem ELSE Free(st.mem, data)
        /\ chan' = st.chan
        /\ sender' = st.sender
        /\ panic' = st.panic

\* the native layer invokes the callback while the producer is allocated; a
\* pick_file session's callback frees the producer, so it fires at most once
NativeCallback ==
    /\ Running /\ shown.called /\ budget > 0 /\ sender = "boxed"
    /\ \E null \in BOOLEAN : \E bytes \in (IF null THEN {<<>>} ELSE files) :
          /\ RunClosure(null, bytes)
          /\ pushed' = Append(pushed, [null |-> null, bytes |-> bytes])
    /\ budget' = budget - 1
    /\ UNCHANGED <<extensions, files, session, shown, rx, adapter, retains, releases,
                   result, yielded, ended, lastPoll, ub, crashed>>

\* the native layer invokes the callback after the producer was freed: the
\* closure dereferences a dangling pointer, which is undefined behaviour; the
\* process dies, or the freed memory still reads as the sender and the closure
\* runs on it. Nothing is modelled past that invocation.
NativeCallbackDangling ==
    /\ Running /\ shown.called /\ budget > 0 /\ sender = "freed"
    /\ shown.allow_multiple
    /\ ub' = TRUE
    /\ budget' = budget - 1
    /\ \E null \in BOOLEAN : \E bytes \in (IF null THEN {<<>>} ELSE files) :
          /\ pushed' = Append(pushed, [null |-> null, bytes |-> bytes])
          /\ \/ /\ crashed' = TRUE
                /\ UNCHANGED <<mem, chan, sender, panic>>
             \/ /\ RunClosure(null, bytes)
                /\ UNCHANGED crashed
    /\ UNCHANGED <<extensions, files, session, shown, rx, adapter, retains, releases,
                   result, yielded, ended, lastPoll>>

\* PickFileFuture::poll while the async block has not completed
PollFuture ==
    /\ Running /\ session = "file" /\ adapter = "alive" /\ ~rx.done
    /\ LET p == rx_await(chan)
       IN  IF p.ready
           THEN /\ result' = {async_block(p.recv)}
                /\ rx' = [rx EXCEPT !.done = TRUE]
                /\ chan' = [chan EXCEPT !.slot = {}]
                /\ lastPoll' = "ready"
           ELSE /\ lastPoll' = "pending"
                /\ UNCHANGED <<result, rx, chan>>
    /\ UNCHANGED <<extensions, files, budget, session, panic, shown, mem, sender,
                   adapter, retains, releases, yielded, ended, pushed, ub, crashed>>

\* PickFileFuture::poll after Ready: the async block panics
PollFutureCompleted ==
    /\ Running /\ session = "file" /\ adapter = "alive" /\ rx.done
    /\ panic' = "resumed"
    /\ UNCHANGED <<extensions, files, budget, session, shown, mem, sender, chan, rx,
                   adapter, retains, releases, result, yielded, ended, lastPoll,
                   pushed, ub, crashed>>

\* PickFilesStream::poll_next
PollStream ==
    /\ Running /\ session = "files" /\ adapter = "alive"
    /\ LET p == filter_map_poll(chan, rx)
       IN  /\ rx' = p.rx
           /\ yielded' = IF p.kind = "item" THEN Append(yielded, p.item) ELSE yielded
           /\ ended' = (p.kind = "end")
           /\ lastPoll' = CASE p.kind = "item" -> "ready"
                            [] p.kind = "end" -> "end"
                            [] OTHER -> "pending"
    /\ UNCHANGED <<extensions, files, budget, session, panic, shown, mem, sender, chan,
                   adapter, retains, releases, result, pushed, ub, crashed>>

\* the adapter is dropped: f or s first (the receiver goes, a value still in
\* the oneshot channel with it), then delegate (one release)
DropAdapter ==
    /\ Running /\ adapter = "alive"
    /\ adapter' = "dropped"
    /\ chan' = [chan EXCEPT !.rxAlive = FALSE,
                            !.slot = IF chan.kind = "oneshot" THEN {} ELSE @]
    /\ releases' = StrongPtrDrop(releases)
    /\ UNCHANGED <<extensions, files, budget, session, panic, shown, mem, sender, rx,
                   retains, result, yielded, ended, lastPoll, pushed, ub, crashed>>

InitCommon ==
    /\ session = "none" /\ panic = "none" /\ shown = NotShown
    /\ mem = <<>> /\ sender = "none" /\ chan = NoChannel /\ rx = NoRx
    /\ adapter = "none" /\ retains = 0 /\ releases = 0
    /\ result = {} /\ yielded = <<>> /\ ended = FALSE /\ lastPoll = "none"
    /\ pushed = <<>> /\ ub = FALSE /\ crashed = FALSE

Init ==
    /\ extensions \in SessionExts
    /\ budget = MaxCallbacks
    /\ files = Buffers
    /\ InitCommon

MarshalInit ==
    /\ extensions \in ExtInputs
    /\ budget = MarshalCallbacks
    /\ files = MarshalBuffers
    /\ InitCommon

Next ==
    \/ pick_file
    \/ pick_files
    \/ NativeCallback
    \/ NativeCallbackDangling
    \/ PollFuture
    \/ PollFutureCompleted
    \/ PollStream
    \/ DropAdapter

Spec == Init /\ [][Next]_vars

MarshalSpec == MarshalInit /\ [][Next]_vars

\* ------------------------------------------------------------------ claims
NonNull(p) == ~p.null
\* the callback was invoked exactly once, with a non-null buffer
OneNonNullCallback == Len(pushed) = 1 /\ NonNull(pushed[1])
\* the extension list has a string with an embedded NUL byte
Malformed == \E i \in 1..Len(extensions) : HasNul(extensions[i])
\* the bytes behind the items the stream has yielded, in order
YieldedBytes ==
    [i \in 1..Len(yielded) |-> deref(mem, CHOOSE h \in yielded[i] : TRUE)]
\* the bytes of the non-null callback invocations, in order
PushedBytes ==
    LET nn == SelectSeq(pushed, NonNull)
    IN  [i \in 1..Len(nn) |-> nn[i].bytes]

\* the resolved output is a copy of the buffer as it was during the callback
C1_ResolvedCopy ==
    (session = "file" /\ OneNonNullCallback /\ result # {}) =>
        \E h \in 1..Len(mem) :
            /\ result = {Some(h)}
            /\ deref(mem, h) = pushed[1].bytes
            /\ Len(deref(mem, h)) = Len(pushed[1].bytes)
\* a poll made after the callback resolves the future
C1_PollResolves ==
    (PollFuture /\ OneNonNullCallback) => result' # {}
\* C1: in a pick_file session whose callback was invoked once with a non-null
\* buffer of length L, a poll of the live future made after the invocation
\* resolves it, and the resolved output is Some(handle) whose bytes are the L
\* bytes the buffer held during the callback, in every later state, although
\* the native buffer is freed when the callback returns.
C1_OneShotSome == [](C1_ResolvedCopy) /\ [][C1_PollResolves]_vars
C1_Witness ==
    /\ session = "file" /\ OneNonNullCallback /\ adapter = "alive"
    /\ \E h \in 1..Len(mem) : result = {Some(h)} /\ Len(deref(mem, h)) = MaxBufLen
    /\ mem[1] = Freed

\* C2: the output of a pick_file future is None when the callback was invoked
\* with a null pointer and Some only when a non-null invocation delivered a
\* value; a receiver whose sender is gone without a value resolves to None.
C2_NoneOrSome ==
    /\ (session = "file" /\ result # {}) =>
           /\ Len(pushed) = 1
           /\ (pushed[1].null <=> result = {None})
    /\ LET gone == [oneshot_channel EXCEPT !.txAlive = FALSE]
       IN  rx_await(gone).ready /\ async_block(rx_await(gone).recv) = None
C2_Witness ==
    session = "file" /\ Len(pushed) = 1 /\ pushed[1].null /\ result = {None}

\* C3 (as claimed): in a pick_files session whose callbacks were all non-null
\* with distinct buffers, once the live stream has caught up with the channel
\* it has produced exactly the pushed values, each once, in invocation order.
C3_AllDelivered ==
    (/\ session = "files" /\ adapter = "alive" /\ ~ub
     /\ \A i \in 1..Len(pushed) : NonNull(pushed[i])
     /\ \A i, j \in 1..Len(pushed) : i # j => pushed[i].bytes # pushed[j].bytes
     /\ ~rx.first /\ rx.version = chan.version)
    => YieldedBytes = PushedBytes

\* what a callback invocation made after the drop leaves behind
C4_LateStep ==
    (NativeCallback /\ session = "file" /\ adapter = "dropped") =>
        /\ panic' = "none" /\ ~ub'
        /\ chan'.slot = {} /\ result' = {} /\ yielded' = <<>>
        /\ \A a \in 1..Len(mem') : mem'[a] = Freed
\* C4: a callback invocation of a pick_file session made after the future was
\* dropped does not panic and delivers nothing: the channel stays empty, the
\* future stays unresolved, and the copy made for the send is freed again.
C4_LateCallbackIgnored == [][C4_LateStep]_vars
C4_Witness ==
    /\ session = "file" /\ adapter = "dropped" /\ OneNonNullCallback
    /\ panic = "none" /\ chan.slot = {} /\ result = {}
    /\ \A a \in 1..Len(mem) : mem[a] = Freed

\* C5: the presenter is retained once when the adapter is created, not
\* released while the adapter is alive, and released once when it is dropped.
C5_RetainBalance ==
    /\ adapter = "none" => (retains = 0 /\ releases = 0)
    /\ adapter = "alive" => (retains = 1 /\ releases = 0)
    /\ adapter = "dropped" => (retains = 1 /\ releases = 1)
C5_Witness ==
    /\ session = "files" /\ adapter = "dropped" /\ Len(pushed) > 0
    /\ retains = 1 /\ releases = 1

\* C6: a pick_files stream never yields the seed None, and yields nothing
\* while the callback has not been invoked.
C6_SeedFiltered ==
    session = "files" =>
        /\ \A i \in 1..Len(yielded) : yielded[i] # None
        /\ (pushed = <<>> => yielded = <<>>)
C6_Witness ==
    /\ session = "files" /\ adapter = "dropped" /\ pushed = <<>>
    /\ lastPoll = "pending" /\ yielded = <<>>

\* no more items than non-null invocations
C7_NullYieldsNothing ==
    session = "files" => Len(yielded) <= Len(SelectSeq(pushed, NonNull))
\* a poll made after a cancellation without a file reports the end
C7_PollAfterCancel ==
    (PollStream /\ pushed # <<>> /\ \A i \in 1..Len(pushed) : pushed[i].null) =>
        (yielded' = <<>> /\ ended' /\ lastPoll' = "end")
\* C7: a pick_files stream has yielded no more items than there were non-null
\* callback invocations; after a null invocation with no file selected before
\* it, every poll of the live stream yields nothing and reports the end.
C7_CancelEndsStream == [](C7_NullYieldsNothing) /\ [][C7_PollAfterCancel]_vars
C7_Witness ==
    /\ session = "files" /\ Len(pushed) = 1 /\ pushed[1].null
    /\ ended /\ lastPoll = "end" /\ yielded = <<>>

\* what a poll returns, by the state of the channel
C8_PollStep ==
    PollFuture =>
        /\ (chan.slot = {} /\ chan.txAlive) => (lastPoll' = "pending" /\ result' = {})
        /\ chan.slot # {} => (lastPoll' = "ready" /\ result' = chan.slot)
\* a resolved output stays as it is
C8_Once == result # {} => result' = result
\* C8: a poll of the pick_file future made while the channel holds no value and
\* its sender is alive returns Pending and leaves the future unresolved; a poll
\* made with a value in the channel returns Ready with that value; a resolved
\* output never changes.
C8_PendingUntilSent ==
    /\ [][C8_PollStep]_vars
    /\ [][C8_Once]_vars
    /\ [](Cardinality(result) <= 1 /\ (result # {} => chan.slot = {} /\ ~chan.txAlive))
C8_Witness ==
    /\ session = "file" /\ lastPoll = "ready" /\ result # {} /\ result # {None}
    /\ adapter = "alive" /\ rx.done

\* nothing of a session exists for a malformed extension list
C9_NothingCreated ==
    Malformed =>
        /\ ~shown.called /\ session = "none" /\ chan = NoChannel
        /\ sender = "none" /\ adapter = "none" /\ retains = 0
        /\ panic \in {"none", "unwrap"}
\* the call itself panics
C9_CallPanics ==
    ((pick_file \/ pick_files) /\ Malformed) => panic' = "unwrap"
\* C9: with an extension string that has an embedded NUL byte, the call of
\* pick_file or pick_files panics, and show_browser is never called and no
\* channel, producer or adapter ever exists.
C9_MalformedFailsAtCall == [](C9_NothingCreated) /\ [][C9_CallPanics]_vars
C9_Witness ==
    Malformed /\ panic = "unwrap" /\ ~shown.called /\ Len(extensions) = MaxExts

\* what show_browser was given, against the extension list
C10_Marshalled ==
    shown.called =>
        /\ shown.types_len = Len(extensions)
        /\ Len(shown.ptrs) = Len(extensions)
        /\ \A i \in 1..Len(extensions) :
              /\ shown.ptrs[i] \in 1..Len(shown.cstrings)
              /\ shown.cstrings[shown.ptrs[i]] # Freed
              /\ shown.cstrings[shown.ptrs[i]] = Append(extensions[i], 0)
              /\ shown.read[i] = extensions[i]
\* a well-formed extension list reaches show_browser
C10_CallShows ==
    ((pick_file \/ pick_files) /\ ~Malformed) => shown'.called
\* C10: for an extension list without embedded NUL bytes, show_browser gets a
\* pointer array as long as the list whose entry i points to a live cell
\* holding string i followed by NUL, so that it reads back string i.
C10_PointerArray == [](C10_Marshalled) /\ [][C10_CallShows]_vars
C10_Witness ==
    /\ shown.called /\ Len(extensions) = MaxExts
    /\ extensions[1] # extensions[2] /\ shown.read = extensions

\* C11 (as claimed): in a pick_files session the boxed producer is never freed
\* twice, and it is freed once the adapter has been dropped.
C11_ReleasedOnce ==
    session = "files" =>
        /\ adapter = "dropped" => sender = "freed"
        /\ ~(ub /\ pushed[Len(pushed)].null)

\* C12: in a pick_files session a non-null callback invocation leaves the
\* producer allocated and the channel open: while every invocation so far was
\* non-null the sender is alive, and the stream has reported its end only
\* with the sender gone.
C12_ProducerKept ==
    (session = "files" /\ ~ub) =>
        /\ (\A i \in 1..Len(pushed) : NonNull(pushed[i])) =>
               (sender = "boxed" /\ chan.txAlive /\ ~ended /\ lastPoll # "end")
        /\ ended => (~chan.txAlive /\ sender = "freed")
C12_Witness ==
    /\ session = "files" /\ adapter = "alive" /\ Len(pushed) = MaxCallbacks
    /\ \A i \in 1..Len(pushed) : NonNull(pushed[i])
    /\ sender = "boxed" /\ lastPoll = "pending" /\ Len(yielded) > 0

\* the handle inside an item Some(handle)
HandleOf(item) == CHOOSE h \in item : TRUE
\* the non-null invocation whose copy lives at address h: invocation k puts
\* its buffer at 2k - 1 and the copy at 2k
PushIndex(h) == h \div 2
\* the stream has seen the channel's current version
CaughtUp == ~rx.first /\ rx.version = chan.version

\* C13: the items a pick_files stream has yielded are copies made by non-null
\* callback invocations, each holding the bytes pushed, and they appear in
\* strictly increasing invocation order, so no invocation yields two items.
C13_InOrderSubsequence ==
    session = "files" =>
        /\ \A i \in 1..Len(yielded) :
              /\ yielded[i] # None
              /\ LET h == HandleOf(yielded[i])
                 IN  /\ h % 2 = 0
                     /\ PushIndex(h) \in 1..Len(PushedBytes)
                     /\ deref(mem, h) = PushedBytes[PushIndex(h)]
        /\ \A i, j \in 1..Len(yielded) :
              i < j => PushIndex(HandleOf(yielded[i])) < PushIndex(HandleOf(yielded[j]))
C13_Witness ==
    /\ session = "files" /\ Len(pushed) = 2 /\ Len(yielded) = 2
    /\ YieldedBytes = PushedBytes /\ YieldedBytes[1] # YieldedBytes[2]

\* once the live stream has caught up, its last item is the latest value pushed
C14_LatestSeen ==
    (session = "files" /\ adapter = "alive" /\ ~ub /\ CaughtUp
     /\ Len(PushedBytes) > 0) =>
        /\ yielded # <<>>
        /\ PushIndex(HandleOf(yielded[Len(yielded)])) = Len(PushedBytes)
\* a poll of the live stream leaves the latest value pushed as its last item
C14_PollYieldsLatest ==
    (PollStream /\ Len(PushedBytes) > 0) =>
        /\ yielded' # <<>>
        /\ PushIndex(HandleOf(yielded'[Len(yielded')])) = Len(PushedBytes)
\* C14: a value pushed in a pick_files session stays unseen by the live stream
\* only if a later value replaced it first: every poll made after a push
\* leaves the latest pushed value as the last item yielded.
C14_OnlySupersededMissed == [](C14_LatestSeen) /\ [][C14_PollYieldsLatest]_vars
C14_Witness ==
    /\ session = "files" /\ adapter = "alive" /\ Len(PushedBytes) = 2
    /\ Len(yielded) = 1 /\ HandleOf(yielded[1]) = 4 /\ CaughtUp

\* before the callback the producer of a pick_file session is allocated, after
\* it the producer is gone
C15_ProducerState ==
    session = "file" =>
        /\ ~ub /\ Len(pushed) <= 1
        /\ pushed = <<>> => (sender = "boxed" /\ chan.txAlive)
        /\ pushed # <<>> => (sender = "freed" /\ ~chan.txAlive)
\* the callback invocation finds the producer allocated and frees it
C15_CallbackDrops ==
    (NativeCallback /\ session = "file") =>
        (sender = "boxed" /\ sender' = "freed" /\ ~chan'.txAlive)
\* C15: the callback invocation of a pick_file session finds the boxed producer
\* allocated and frees it, whether the buffer is null or not and whether the
\* send succeeds or not; after it the producer no longer exists.
C15_OneShotReclaims == [](C15_ProducerState) /\ [][C15_CallbackDrops]_vars
C15_Witness ==
    /\ session = "file" /\ adapter = "dropped" /\ Len(pushed) = 1
    /\ pushed[1].null /\ result = {} /\ sender = "freed"

\* a non-null callback invocation made after the stream was dropped
C16_LateStep ==
    (NativeCallback /\ session = "files" /\ adapter = "dropped"
     /\ NonNull(pushed'[Len(pushed')])) =>
        /\ panic' = "none" /\ ~ub'
        /\ chan' = chan /\ yielded' = yielded
        /\ sender' = "boxed"
        /\ Len(mem') = Len(mem) + 2
        /\ \A a \in (Len(mem) + 1)..Len(mem') : mem'[a] = Freed
\* C16: a non-null callback invocation of a pick_files session made after the
\* stream was dropped does not panic and changes nothing: the channel and the
\* items are as before, the copy made for the send is freed again, and the
\* producer stays allocated.
C16_DroppedStreamDiscards == [][C16_LateStep]_vars
C16_Witness ==
    /\ session = "files" /\ adapter = "dropped" /\ Len(pushed) = MaxCallbacks
    /\ \A i \in 1..Len(pushed) : NonNull(pushed[i])
    /\ \A a \in 1..Len(mem) : mem[a] = Freed
    /\ sender = "boxed" /\ panic = "none"

\* the native layer may invoke the callback
CallbackMayFire == ENABLED (NativeCallback \/ NativeCallbackDangling)

\* C17 (as claimed): in every state where the native layer may still invoke
\* the callback, the presenter has not been released.
C17_HeldWhileCallable == CallbackMayFire => releases = 0

\* C17 (amended): in every state where the native layer may still invoke the
\* callback and the adapter is alive, the adapter's retain of the presenter is
\* in place and nothing has released it; a release is seen only with the
\* adapter dropped.
C17_HeldWhileListening ==
    /\ (CallbackMayFire /\ adapter = "alive") => (retains = 1 /\ releases = 0)
    /\ (CallbackMayFire /\ releases > 0) => (adapter = "dropped" /\ releases = 1)
C17_Witness ==
    /\ CallbackMayFire /\ adapter = "alive" /\ session = "file"
    /\ lastPoll = "pending" /\ retains = 1 /\ releases = 0

\* C18 (as claimed): no callback invocation of a pick_files session finds the
\* producer freed by an earlier invocation.
C18_NoUseAfterFree == session = "files" => ~ub

\* the last two non-null invocations carried the same bytes
LastTwoEqual ==
    /\ Len(PushedBytes) >= 2
    /\ PushedBytes[Len(PushedBytes)] = PushedBytes[Len(PushedBytes) - 1]
\* the stream has yielded the copy made by the k-th non-null invocation
Observed(k) == \E i \in 1..Len(yielded) : yielded[i] = Some(2 * k)
\* both equal values are items once the stream has caught up
C19_BothYielded ==
    (session = "files" /\ adapter = "alive" /\ ~ub /\ LastTwoEqual /\ CaughtUp
     /\ Observed(Len(PushedBytes) - 1)) =>
        /\ Observed(Len(PushedBytes))
        /\ Len(yielded) >= 2
        /\ YieldedBytes[Len(yielded)] = YieldedBytes[Len(yielded) - 1]
\* the poll after the second of two equal values yields a further item
C19_PollYieldsSecond ==
    (PollStream /\ LastTwoEqual /\ Observed(Len(PushedBytes) - 1)
     /\ ~Observed(Len(PushedBytes))) =>
        yielded' = Append(yielded, Some(2 * Len(PushedBytes)))
\* C19: when two successive callback invocations of a pick_files session carry
\* the same bytes and the stream yielded the first before the second was
\* pushed, the next poll yields the second as a further item: the stream has
\* two items with equal bytes.
C19_NoDeduplication == [](C19_BothYielded) /\ [][C19_PollYieldsSecond]_vars
C19_Witness ==
    /\ session = "files" /\ Len(yielded) = 2 /\ LastTwoEqual
    /\ yielded = <<Some(2), Some(4)>> /\ YieldedBytes[1] = YieldedBytes[2]

====
